---- MODULE Spec2Model ----
(***************************************************************************)
(* CTC decoding (standard/CTC/CTCDecoding.py): GreedySearchDecoder and     *)
(* BeamSearchDecoder.                                                      *)
(*                                                                         *)
(* A Python string is modelled as the sequence of its characters, so the   *)
(* symbol "ab" is <<"a","b">>, the empty path "" is <<>>, string           *)
(* concatenation is \o and path[-1] is the last character.  A dict is a    *)
(* function whose DOMAIN is its key set.  Probabilities are naturals; the  *)
(* code only multiplies, adds and compares them.                           *)
(*                                                                         *)
(* y_probs is a record: shape = <<classes, seq_length, batch_size>> and    *)
(* at[s][t] = y_probs[s, t, 0] (0-based, as in the code).  The code reads  *)
(* batch element 0 only, so the other batch elements are not represented.  *)
(***************************************************************************)
EXTENDS Integers, Sequences, FiniteSets, TLC

VARIABLES self, loc

vars == <<self, loc>>

\* self: the decoder object (symbol_set, beam_width and, for the beam search
\*       decoder, the attributes blank_path_score and path_score).
\* loc:  one record of local variables per decode invocation.

(***************************************************************************)
(* Bounds of the model.                                                    *)
(***************************************************************************)
MaxT == 3

MaxProb == 1

MaxBeamWidth == 2

(***************************************************************************)
(* Python values and containers.                                           *)
(***************************************************************************)
None == <<"None">>

EmptyDict == [k \in {} |-> 0]

\* d[k] = v on a dict: insert or overwrite.
DictSet(d, k, v) == (k :> v) @@ d

\* seq[i] on a Python list of length n: valid indices are -n .. n-1.
IndexInRange(n, i) == (-n <= i) /\ (i < n)

\* The 1-based position a valid Python index i denotes in a list of length n.
IndexPos(n, i) == IF i < 0 THEN n + i + 1 ELSE i + 1

\* An iteration order of a set (one fixed order; used where the result of the
\* loop does not depend on the order).
RECURSIVE SetToSeq(_)
SetToSeq(S) ==
    IF S = {} THEN <<>>
    ELSE LET x == CHOOSE e \in S : TRUE IN <<x>> \o SetToSeq(S \ {x})

\* All iteration orders of a set.
RECURSIVE Orders(_)
Orders(S) ==
    IF S = {} THEN {<<>>}
    ELSE UNION {{<<x>> \o o : o \in Orders(S \ {x})} : x \in S}

(***************************************************************************)
(* Inputs.                                                                 *)
(***************************************************************************)
SymbolSets == {<<>>, <<(<<"a">>)>>, <<(<<"a">>), (<<"b">>)>>, <<(<<"a", "b">>)>>}

Tensors(classes, T, batch) ==
    {[shape |-> <<classes, T, batch>>, at |-> f] :
        f \in [0..(classes - 1) -> [0..(T - 1) -> 0..MaxProb]]}

\* The longest sequence decoded with the symbol set a: MaxT timesteps, one less
\* for every symbol beyond the first.
MaxLength(a) == IF Len(a) <= 1 THEN MaxT ELSE MaxT + 1 - Len(a)

\* The tensor that gives probability 1 to the listed class at each timestep.
OneHot(classes, idx) ==
    [shape |-> <<classes, Len(idx), 1>>,
     at |-> [s \in 0..(classes - 1) |->
                [t \in 0..(Len(idx) - 1) |-> IF idx[t + 1] = s THEN 1 ELSE 0]]]

LawIndices == <<0, 1, 1, 0, 1, 2, 2, 0>>

LawSymbols == <<(<<"a">>), (<<"b">>)>>

\* Locals of a decode invocation before its first statement.
NewCall(y) ==
    [y_probs |-> y, pc |-> "start", t |-> 0,
     decoded_path |-> <<>>, path_prob |-> 1, uncompressed_path |-> <<>>,
     new_paths_with_terminal_blank |-> {}, new_paths_with_terminal_symbol |-> {},
     new_blank_path_score |-> EmptyDict, new_path_score |-> EmptyDict,
     paths_with_terminal_blank |-> {}, paths_with_terminal_symbol |-> {},
     merged_paths |-> {}, merged_path_scores |-> EmptyDict,
     bestPath |-> None, FinalPathScore |-> None,
     \* the value of line 145 between the two stores, the iteration orders of
     \* the two pruned sets, the iterations completed in the running loop and
     \* the locals of extend_with_blank and extend_with_symbol
     pruned_path_score |-> EmptyDict, blank_order |-> <<>>, symbol_order |-> <<>>,
     visited |-> 0,
     updated_paths_with_terminal_blank |-> {}, updated_blank_path_score |-> EmptyDict,
     updated_paths_with_terminal_symbol |-> {}, updated_path_score |-> EmptyDict]

(***************************************************************************)
(* GreedySearchDecoder                                                     *)
(***************************************************************************)

\* ScanMax with >= in place of >: the last class wins a tie.
RECURSIVE ScanMaxLastOnTies(_, _, _, _, _)
ScanMaxLastOnTies(y, t, s, max_prob, max_idx) ==
    IF s >= y.shape[1] THEN <<max_prob, max_idx>>
    ELSE IF y.at[s][t] >= max_prob
         THEN ScanMaxLastOnTies(y, t, s + 1, y.at[s][t], s)
         ELSE ScanMaxLastOnTies(y, t, s + 1, max_prob, max_idx)

\* Inner loop of decode (lines 57-62): scan classes s, s+1, ... of timestep t.
\* Returns <<max_prob, max_idx>>.
RECURSIVE ScanMax(_, _, _, _, _)
ScanMax(y, t, s, max_prob, max_idx) ==
    IF s >= y.shape[1] THEN <<max_prob, max_idx>>
    ELSE IF y.at[s][t] > max_prob
         THEN ScanMax(y, t, s + 1, y.at[s][t], s)
         ELSE ScanMax(y, t, s + 1, max_prob, max_idx)

\* Compression loop (lines 68-70) from position i on.
RECURSIVE Compress(_, _)
Compress(u, i) ==
    IF i > Len(u) THEN <<>>
    ELSE IF i = 1 \/ u[i] # u[i - 1]
         THEN u[i] \o Compress(u, i + 1)
         ELSE Compress(u, i + 1)

\* The read y_probs[s, t, 0] of line 60 raises IndexError: there is a class to
\* scan and no batch element 0.
ScanRaises(y) == y.shape[1] > 0 /\ y.shape[3] < 1

\* One iteration of the timestep loop raises IndexError: on line 60, or on
\* line 65 in self.symbol_set[max_idx - 1].
GreedyIterRaises(symbol_set, y, t) ==
    LET m == ScanMax(y, t, 0, -1, -1) IN
    \/ ScanRaises(y)
    \/ m[2] # 0 /\ ~IndexInRange(Len(symbol_set), m[2] - 1)

\* One iteration of the timestep loop (lines 56-65).  An IndexError of line 65
\* comes after the update of path_prob on line 63.
GreedyIter(c) ==
    /\ self.class = "GreedySearchDecoder"
    /\ loc[c].pc = "start"
    /\ loc[c].t < loc[c].y_probs.shape[2]
    /\ LET l == loc[c]
           m == ScanMax(l.y_probs, l.t, 0, -1, -1)
       IN IF GreedyIterRaises(self.symbol_set, l.y_probs, l.t)
          THEN IF ScanRaises(l.y_probs)
               THEN loc' = [loc EXCEPT ![c].pc = "error"]
               ELSE loc' = [loc EXCEPT ![c].path_prob = l.path_prob * m[1],
                                       ![c].pc = "error"]
          ELSE loc' = [loc EXCEPT
                 ![c].path_prob = l.path_prob * m[1],
                 ![c].uncompressed_path =
                     IF m[2] # 0
                     THEN Append(l.uncompressed_path,
                            self.symbol_set[IndexPos(Len(self.symbol_set), m[2] - 1)])
                     ELSE l.uncompressed_path,
                 ![c].t = l.t + 1]
    /\ UNCHANGED self

\* The compression loop and the return (lines 68-72).
GreedyReturn(c) ==
    /\ self.class = "GreedySearchDecoder"
    /\ loc[c].pc = "start"
    /\ loc[c].t >= loc[c].y_probs.shape[2]
    /\ loc' = [loc EXCEPT ![c].decoded_path = Compress(loc[c].uncompressed_path, 1),
                          ![c].pc = "done"]
    /\ UNCHANGED self

\* A greedy decoder and one decode call on a tensor of the decoder's shape, or on
\* the class-index sequence LawIndices given with probability 1.
InitGreedy ==
    \E a \in SymbolSets :
        /\ self = [class |-> "GreedySearchDecoder", symbol_set |-> a]
        /\ \E y \in UNION {Tensors(Len(a) + 1, T, 1) : T \in 0..MaxLength(a)} \cup
                    (IF a = LawSymbols THEN {OneHot(3, LawIndices)} ELSE {}) :
              loc = [c \in {1} |-> NewCall(y)]

NextGreedy ==
    \/ \E c \in DOMAIN loc : GreedyIter(c)
    \/ \E c \in DOMAIN loc : GreedyReturn(c)

SpecGreedy == InitGreedy /\ [][NextGreedy]_vars

\* ---- decode as a function ------------------------------------------------

\* The timestep loop (lines 56-65) after its first t iterations, on an input of
\* the decoder's shape.
RECURSIVE GreedyLoop(_, _, _)
GreedyLoop(symbol_set, y, t) ==
    IF t = 0 THEN [path_prob |-> 1, uncompressed_path |-> <<>>]
    ELSE LET prev == GreedyLoop(symbol_set, y, t - 1)
             m == ScanMax(y, t - 1, 0, -1, -1)
         IN [path_prob |-> prev.path_prob * m[1],
             uncompressed_path |->
                 IF m[2] # 0
                 THEN Append(prev.uncompressed_path,
                             symbol_set[IndexPos(Len(symbol_set), m[2] - 1)])
                 ELSE prev.uncompressed_path]

\* The pair returned by GreedySearchDecoder.decode (line 72).
GreedyDecode(symbol_set, y) ==
    LET r == GreedyLoop(symbol_set, y, y.shape[2])
    IN [decoded_path |-> Compress(r.uncompressed_path, 1), path_prob |-> r.path_prob]

(***************************************************************************)
(* BeamSearchDecoder                                                       *)
(***************************************************************************)

\* __init__ (lines 92-93); the attributes blank_path_score and path_score are
\* created by decode (lines 130-131) and are shown empty until then.
BeamSearchDecoder(symbol_set, beam_width) ==
    [class |-> "BeamSearchDecoder", symbol_set |-> symbol_set,
     beam_width |-> beam_width,
     blank_path_score |-> EmptyDict, path_score |-> EmptyDict]

\* y_probs[:, t, 0]
Column(y, t) == [s \in 0..(y.shape[1] - 1) |-> y.at[s][t]]

\* ---- initialize_paths ----------------------------------------------------

\* The loop of lines 203-206 over the first n symbols: initial_path_score.
RECURSIVE InitialPathScore(_, _, _)
InitialPathScore(symbol_set, y, n) ==
    IF n = 0 THEN EmptyDict
    ELSE DictSet(InitialPathScore(symbol_set, y, n - 1), symbol_set[n], y.at[n][0])

\* IndexError from y_probs[0, 0, 0] or y_probs[i + 1, 0, 0].
initialize_paths_raises(symbol_set, y) ==
    \/ y.shape[1] < 1 \/ y.shape[2] < 1 \/ y.shape[3] < 1
    \/ Len(symbol_set) + 1 > y.shape[1]

\* initialize_paths that also lists the empty path among the symbol-terminated
\* paths, scored with the blank probability.
initializePathsBlankInBoth(symbol_set, y) ==
    [initial_paths_with_final_blank |-> {<<>>},
     initial_paths_with_final_symbols |->
        {<<>>} \cup {symbol_set[i] : i \in 1..Len(symbol_set)},
     initial_blank_path_score |-> (<<>> :> y.at[0][0]),
     initial_path_score |->
        DictSet(InitialPathScore(symbol_set, y, Len(symbol_set)), <<>>, y.at[0][0])]

initialize_paths(symbol_set, y) ==
    [initial_paths_with_final_blank |-> {<<>>},
     initial_paths_with_final_symbols |-> {symbol_set[i] : i \in 1..Len(symbol_set)},
     initial_blank_path_score |-> (<<>> :> y.at[0][0]),
     initial_path_score |-> InitialPathScore(symbol_set, y, Len(symbol_set))]

\* ---- prune ---------------------------------------------------------------

\* score_list as gathered by lines 230-235.
ScoreList(paths_with_terminal_blank, paths_with_terminal_symbol, blank_path_score, path_score) ==
    LET b == SetToSeq(paths_with_terminal_blank)
        s == SetToSeq(paths_with_terminal_symbol)
    IN [i \in 1..Len(b) |-> blank_path_score[b[i]]] \o
       [i \in 1..Len(s) |-> path_score[s[i]]]

\* list.sort(reverse=True): element j goes to the position given by the number
\* of elements that precede it in descending order (the sort is stable).
SortReverse(s) ==
    LET rank(j) == 1 + Cardinality({k \in 1..Len(s) :
                                       s[k] > s[j] \/ (s[k] = s[j] /\ k < j)})
    IN [p \in 1..Len(s) |-> s[CHOOSE j \in 1..Len(s) : rank(j) = p]]

\* KeyError while gathering the scores, or IndexError from score_list[...].
prune_raises(paths_with_terminal_blank, paths_with_terminal_symbol, blank_path_score, path_score, beam_width) ==
    LET n == Cardinality(paths_with_terminal_blank) +
             Cardinality(paths_with_terminal_symbol)
    IN \/ ~(paths_with_terminal_blank \subseteq DOMAIN blank_path_score)
       \/ ~(paths_with_terminal_symbol \subseteq DOMAIN path_score)
       \/ IF n >= beam_width THEN ~IndexInRange(n, beam_width - 1)
                             ELSE ~IndexInRange(n, -1)

\* Cutoff that always takes score_list[-1], the smallest score.
CutoffAlwaysLast(score_list, beam_width) ==
    LET sorted == SortReverse(score_list)
    IN sorted[IndexPos(Len(sorted), -1)]

\* Cutoff reading score_list[beam_width]: one position too far.
CutoffOffByOne(score_list, beam_width) ==
    LET sorted == SortReverse(score_list)
        n == Len(sorted)
    IN IF n > beam_width THEN sorted[IndexPos(n, beam_width)]
                         ELSE sorted[IndexPos(n, -1)]

\* cutoff (lines 238-243).
Cutoff(score_list, beam_width) ==
    LET sorted == SortReverse(score_list)
        n == Len(sorted)
    IN IF n >= beam_width THEN sorted[IndexPos(n, beam_width - 1)]
                          ELSE sorted[IndexPos(n, -1)]

\* prune with <= in place of >=: the paths scored above the cutoff are dropped.
pruneAtMostCutoff(paths_with_terminal_blank, paths_with_terminal_symbol, blank_path_score, path_score, beam_width) ==
    LET cutoff == Cutoff(ScoreList(paths_with_terminal_blank,
                                   paths_with_terminal_symbol,
                                   blank_path_score, path_score), beam_width)
        keptBlank == {p \in paths_with_terminal_blank : blank_path_score[p] <= cutoff}
        keptSymbol == {p \in paths_with_terminal_symbol : path_score[p] <= cutoff}
    IN [pruned_paths_with_terminal_blank |-> keptBlank,
        pruned_paths_with_terminal_symbol |-> keptSymbol,
        pruned_blank_path_score |-> [p \in keptBlank |-> blank_path_score[p]],
        pruned_path_score |-> [p \in keptSymbol |-> path_score[p]]]

\* prune returning the score maps it was given: the entries of the removed
\* paths stay.
pruneKeepingAllScores(paths_with_terminal_blank, paths_with_terminal_symbol, blank_path_score, path_score, beam_width) ==
    LET cutoff == Cutoff(ScoreList(paths_with_terminal_blank,
                                   paths_with_terminal_symbol,
                                   blank_path_score, path_score), beam_width)
        keptBlank == {p \in paths_with_terminal_blank : blank_path_score[p] >= cutoff}
        keptSymbol == {p \in paths_with_terminal_symbol : path_score[p] >= cutoff}
    IN [pruned_paths_with_terminal_blank |-> keptBlank,
        pruned_paths_with_terminal_symbol |-> keptSymbol,
        pruned_blank_path_score |-> blank_path_score,
        pruned_path_score |-> path_score]

\* prune with > in place of >=: paths tied with the cutoff are dropped.
pruneStrictlyAbove(paths_with_terminal_blank, paths_with_terminal_symbol, blank_path_score, path_score, beam_width) ==
    LET cutoff == Cutoff(ScoreList(paths_with_terminal_blank,
                                   paths_with_terminal_symbol,
                                   blank_path_score, path_score), beam_width)
        keptBlank == {p \in paths_with_terminal_blank : blank_path_score[p] > cutoff}
        keptSymbol == {p \in paths_with_terminal_symbol : path_score[p] > cutoff}
    IN [pruned_paths_with_terminal_blank |-> keptBlank,
        pruned_paths_with_terminal_symbol |-> keptSymbol,
        pruned_blank_path_score |-> [p \in keptBlank |-> blank_path_score[p]],
        pruned_path_score |-> [p \in keptSymbol |-> path_score[p]]]

prune(paths_with_terminal_blank, paths_with_terminal_symbol, blank_path_score, path_score, beam_width) ==
    LET cutoff == Cutoff(ScoreList(paths_with_terminal_blank,
                                   paths_with_terminal_symbol,
                                   blank_path_score, path_score), beam_width)
        keptBlank == {p \in paths_with_terminal_blank : blank_path_score[p] >= cutoff}
        keptSymbol == {p \in paths_with_terminal_symbol : path_score[p] >= cutoff}
    IN [pruned_paths_with_terminal_blank |-> keptBlank,
        pruned_paths_with_terminal_symbol |-> keptSymbol,
        pruned_blank_path_score |-> [p \in keptBlank |-> blank_path_score[p]],
        pruned_path_score |-> [p \in keptSymbol |-> path_score[p]]]

\* ---- extend_with_blank ---------------------------------------------------

\* KeyError from self.blank_path_score[path] or self.path_score[path].
extend_with_blank_raises(obj, paths_with_terminal_blank, paths_with_terminal_symbol, y_probs) ==
    \/ ~(paths_with_terminal_blank \subseteq DOMAIN obj.blank_path_score)
    \/ ~(paths_with_terminal_symbol \subseteq DOMAIN obj.path_score)
    \/ /\ paths_with_terminal_blank \cup paths_with_terminal_symbol # {}
       /\ 0 \notin DOMAIN y_probs

\* extend_with_blank with = in place of += on line 285: the score of a
\* symbol-terminated path replaces the carried score of the same string.
extendWithBlankOverwriting(obj, paths_with_terminal_blank, paths_with_terminal_symbol, y_probs) ==
    LET carried == [p \in paths_with_terminal_blank |->
                       obj.blank_path_score[p] * y_probs[0]]
        all == paths_with_terminal_blank \cup paths_with_terminal_symbol
    IN [updated_paths_with_terminal_blank |-> all,
        updated_blank_path_score |->
            [p \in all |->
                IF p \in paths_with_terminal_symbol
                THEN obj.path_score[p] * y_probs[0]
                ELSE carried[p]]]

\* extend_with_blank without the factor y_probs[0] on line 279: a carried
\* blank-terminated path keeps its score.
extendWithBlankUnscaled(obj, paths_with_terminal_blank, paths_with_terminal_symbol, y_probs) ==
    LET carried == [p \in paths_with_terminal_blank |-> obj.blank_path_score[p]]
        all == paths_with_terminal_blank \cup paths_with_terminal_symbol
    IN [updated_paths_with_terminal_blank |-> all,
        updated_blank_path_score |->
            [p \in all |->
                IF p \in paths_with_terminal_symbol
                THEN IF p \in paths_with_terminal_blank
                     THEN carried[p] + obj.path_score[p] * y_probs[0]
                     ELSE obj.path_score[p] * y_probs[0]
                ELSE carried[p]]]

extend_with_blank(obj, paths_with_terminal_blank, paths_with_terminal_symbol, y_probs) ==
    LET \* lines 277-279
        carried == [p \in paths_with_terminal_blank |->
                       obj.blank_path_score[p] * y_probs[0]]
        all == paths_with_terminal_blank \cup paths_with_terminal_symbol
    IN [updated_paths_with_terminal_blank |-> all,
        updated_blank_path_score |->
            \* lines 282-287
            [p \in all |->
                IF p \in paths_with_terminal_symbol
                THEN IF p \in paths_with_terminal_blank
                     THEN carried[p] + obj.path_score[p] * y_probs[0]
                     ELSE obj.path_score[p] * y_probs[0]
                ELSE carried[p]]]

\* ---- extend_with_symbol --------------------------------------------------

\* The (path, symbol position) pairs in the order the nested loops visit them.
LoopPairs(order, n) ==
    [j \in 1..(Len(order) * n) |-> <<order[((j - 1) \div n) + 1], ((j - 1) % n) + 1>>]

\* path[-1] == c: the last character of path compared with the string c.
LastCharIs(path, c) == Len(c) = 1 /\ path[Len(path)] = c[1]

\* new_path of line 314.
SymbolExtension(path, c) == IF LastCharIs(path, c) THEN path ELSE path \o c

\* Lines 303-309 after the first j (path, symbol) pairs.
RECURSIVE FromBlankPaths(_, _, _, _)
FromBlankPaths(obj, pairs, y_probs, j) ==
    IF j = 0 THEN [paths |-> {}, score |-> EmptyDict]
    ELSE LET prev == FromBlankPaths(obj, pairs, y_probs, j - 1)
             path == pairs[j][1]
             i == pairs[j][2]
             new_path == path \o obj.symbol_set[i]
         IN [paths |-> prev.paths \cup {new_path},
             score |-> DictSet(prev.score, new_path,
                               obj.blank_path_score[path] * y_probs[i])]

\* FromSymbolPaths with = in place of += on line 318.
RECURSIVE FromSymbolPathsOverwriting(_, _, _, _, _)
FromSymbolPathsOverwriting(obj, pairs, y_probs, j, start) ==
    IF j = 0 THEN start
    ELSE LET prev == FromSymbolPathsOverwriting(obj, pairs, y_probs, j - 1, start)
             path == pairs[j][1]
             i == pairs[j][2]
             new_path == SymbolExtension(path, obj.symbol_set[i])
             prob == obj.path_score[path] * y_probs[i]
         IN [paths |-> prev.paths \cup {new_path},
             score |-> DictSet(prev.score, new_path, prob)]

\* Lines 312-320 after the first j (path, symbol) pairs, starting from start.
RECURSIVE FromSymbolPaths(_, _, _, _, _)
FromSymbolPaths(obj, pairs, y_probs, j, start) ==
    IF j = 0 THEN start
    ELSE LET prev == FromSymbolPaths(obj, pairs, y_probs, j - 1, start)
             path == pairs[j][1]
             i == pairs[j][2]
             new_path == SymbolExtension(path, obj.symbol_set[i])
             prob == obj.path_score[path] * y_probs[i]
         IN IF new_path \in prev.paths
            THEN [paths |-> prev.paths,
                  score |-> DictSet(prev.score, new_path, prev.score[new_path] + prob)]
            ELSE [paths |-> prev.paths \cup {new_path},
                  score |-> DictSet(prev.score, new_path, prob)]

\* KeyError from the score lookups, IndexError from y_probs[i + 1] or from
\* path[-1] on an empty path; all inside the loops over symbol_set.
extend_with_symbol_raises(obj, paths_with_terminal_blank, paths_with_terminal_symbol, y_probs) ==
    /\ Len(obj.symbol_set) > 0
    /\ \/ ~(paths_with_terminal_blank \subseteq DOMAIN obj.blank_path_score)
       \/ ~(paths_with_terminal_symbol \subseteq DOMAIN obj.path_score)
       \/ <<>> \in paths_with_terminal_symbol
       \/ /\ paths_with_terminal_blank \cup paths_with_terminal_symbol # {}
          /\ Len(obj.symbol_set) \notin DOMAIN y_probs

\* blank_order is the order in which the loop of line 303 visits
\* paths_with_terminal_blank; the second loop only adds, so its result does
\* not depend on its order.
extend_with_symbol(obj, blank_order, paths_with_terminal_symbol, y_probs) ==
    LET n == Len(obj.symbol_set)
        first == LoopPairs(blank_order, n)
        second == LoopPairs(SetToSeq(paths_with_terminal_symbol), n)
        r == FromSymbolPaths(obj, second, y_probs, Len(second),
                             FromBlankPaths(obj, first, y_probs, Len(first)))
    IN [updated_paths_with_terminal_symbol |-> r.paths,
        updated_path_score |-> r.score]

\* ---- merge_identical_paths -----------------------------------------------

merge_identical_paths_raises(paths_with_terminal_blank, blank_path_score, paths_with_terminal_symbol, path_score) ==
    \/ ~(paths_with_terminal_blank \subseteq DOMAIN blank_path_score)
    \/ ~((paths_with_terminal_blank \cap paths_with_terminal_symbol)
            \subseteq DOMAIN path_score)

\* merge_identical_paths with = in place of += on line 342.
mergeOverwriting(paths_with_terminal_blank, blank_path_score, paths_with_terminal_symbol, path_score) ==
    [merged_paths |-> paths_with_terminal_symbol \cup paths_with_terminal_blank,
     final_path_scores |->
        [p \in (DOMAIN path_score) \cup paths_with_terminal_blank |->
            IF p \in paths_with_terminal_blank
            THEN blank_path_score[p]
            ELSE path_score[p]]]

merge_identical_paths(paths_with_terminal_blank, blank_path_score, paths_with_terminal_symbol, path_score) ==
    [merged_paths |-> paths_with_terminal_symbol \cup paths_with_terminal_blank,
     final_path_scores |->
        [p \in (DOMAIN path_score) \cup paths_with_terminal_blank |->
            IF p \in paths_with_terminal_blank
            THEN IF p \in paths_with_terminal_symbol
                 THEN path_score[p] + blank_path_score[p]
                 ELSE blank_path_score[p]
            ELSE path_score[p]]]

\* ---- selection of the best path (lines 175-180) --------------------------

FirstFinalPathScore == -1

\* ScanBest without the update of FinalPathScore (line 179).
RECURSIVE ScanBestStaleScore(_, _, _)
ScanBestStaleScore(order, merged_path_scores, j) ==
    IF j = 0 THEN [bestPath |-> None, FinalPathScore |-> FirstFinalPathScore]
    ELSE LET prev == ScanBestStaleScore(order, merged_path_scores, j - 1)
             path == order[j]
         IN IF merged_path_scores[path] > prev.FinalPathScore
            THEN [bestPath |-> path, FinalPathScore |-> prev.FinalPathScore]
            ELSE prev

RECURSIVE ScanBest(_, _, _)
ScanBest(order, merged_path_scores, j) ==
    IF j = 0 THEN [bestPath |-> None, FinalPathScore |-> FirstFinalPathScore]
    ELSE LET prev == ScanBest(order, merged_path_scores, j - 1)
             path == order[j]
         IN IF merged_path_scores[path] > prev.FinalPathScore
            THEN [bestPath |-> path, FinalPathScore |-> merged_path_scores[path]]
            ELSE prev

\* Iteration orders of merged_paths: any element may come first.  The scan
\* returns the first element of maximum score, so these orders produce every
\* result that some iteration order produces.
ScanOrders(S) ==
    IF S = {} THEN {<<>>} ELSE {<<x>> \o SetToSeq(S \ {x}) : x \in S}

\* ---- decode: one action per phase ----------------------------------------
\* For a call that is the only one running on its decoder: no other statement
\* runs between the statements of a phase.

IsBeamCall(c, pc) == self.class = "BeamSearchDecoder" /\ loc[c].pc = pc

\* The loop of line 140 running once more, up to t = seq_length.
LoopOrMergeOneMore(y, t) == IF t <= y.shape[2] THEN "prune" ELSE "merge_identical_paths"

\* The phase a call runs next when its loop variable is t (line 140).
LoopOrMerge(y, t) == IF t < y.shape[2] THEN "prune" ELSE "merge_identical_paths"

\* Lines 118-138: reset the decoder's score attributes and seed the paths.
Initialize(c) ==
    /\ IsBeamCall(c, "start")
    /\ self' = [self EXCEPT !.blank_path_score = EmptyDict, !.path_score = EmptyDict]
    /\ LET y == loc[c].y_probs IN
       IF initialize_paths_raises(self.symbol_set, y)
       THEN loc' = [loc EXCEPT ![c].pc = "error"]
       ELSE LET r == initialize_paths(self.symbol_set, y) IN
            loc' = [loc EXCEPT
                ![c].new_paths_with_terminal_blank = r.initial_paths_with_final_blank,
                ![c].new_paths_with_terminal_symbol = r.initial_paths_with_final_symbols,
                ![c].new_blank_path_score = r.initial_blank_path_score,
                ![c].new_path_score = r.initial_path_score,
                ![c].t = 1,
                ![c].pc = LoopOrMerge(y, 1)]

\* Lines 141-151: prune; the pruned score maps are stored on the decoder.
Prune(c) ==
    /\ IsBeamCall(c, "prune")
    /\ LET l == loc[c] IN
       IF prune_raises(l.new_paths_with_terminal_blank, l.new_paths_with_terminal_symbol,
                       l.new_blank_path_score, l.new_path_score, self.beam_width)
       THEN loc' = [loc EXCEPT ![c].pc = "error"] /\ UNCHANGED self
       ELSE LET r == prune(l.new_paths_with_terminal_blank,
                           l.new_paths_with_terminal_symbol,
                           l.new_blank_path_score, l.new_path_score, self.beam_width)
            IN /\ loc' = [loc EXCEPT
                    ![c].paths_with_terminal_blank = r.pruned_paths_with_terminal_blank,
                    ![c].paths_with_terminal_symbol = r.pruned_paths_with_terminal_symbol,
                    ![c].pc = "extend_with_blank"]
               /\ self' = [self EXCEPT !.blank_path_score = r.pruned_blank_path_score,
                                       !.path_score = r.pruned_path_score]

\* Lines 154-161.
ExtendWithBlank(c) ==
    /\ IsBeamCall(c, "extend_with_blank")
    /\ LET l == loc[c]
           y_t == Column(l.y_probs, l.t)
       IN IF extend_with_blank_raises(self, l.paths_with_terminal_blank,
                                      l.paths_with_terminal_symbol, y_t)
          THEN loc' = [loc EXCEPT ![c].pc = "error"]
          ELSE LET r == extend_with_blank(self, l.paths_with_terminal_blank,
                                          l.paths_with_terminal_symbol, y_t)
               IN loc' = [loc EXCEPT
                    ![c].new_paths_with_terminal_blank = r.updated_paths_with_terminal_blank,
                    ![c].new_blank_path_score = r.updated_blank_path_score,
                    ![c].pc = "extend_with_symbol"]
    /\ UNCHANGED self

\* Lines 164-166 and the advance of the loop of line 140.
ExtendWithSymbol(c) ==
    /\ IsBeamCall(c, "extend_with_symbol")
    /\ LET l == loc[c]
           y_t == Column(l.y_probs, l.t)
       IN IF extend_with_symbol_raises(self, l.paths_with_terminal_blank,
                                       l.paths_with_terminal_symbol, y_t)
          THEN loc' = [loc EXCEPT ![c].pc = "error"]
          ELSE \E blank_order \in Orders(l.paths_with_terminal_blank) :
               LET r == extend_with_symbol(self, blank_order,
                                           l.paths_with_terminal_symbol, y_t)
               IN loc' = [loc EXCEPT
                    ![c].new_paths_with_terminal_symbol = r.updated_paths_with_terminal_symbol,
                    ![c].new_path_score = r.updated_path_score,
                    ![c].t = l.t + 1,
                    ![c].pc = LoopOrMerge(l.y_probs, l.t + 1)]
    /\ UNCHANGED self

\* Lines 168-173.
Merge(c) ==
    /\ IsBeamCall(c, "merge_identical_paths")
    /\ LET l == loc[c] IN
       IF merge_identical_paths_raises(l.new_paths_with_terminal_blank,
                                       l.new_blank_path_score,
                                       l.new_paths_with_terminal_symbol,
                                       l.new_path_score)
       THEN loc' = [loc EXCEPT ![c].pc = "error"]
       ELSE LET r == merge_identical_paths(l.new_paths_with_terminal_blank,
                                           l.new_blank_path_score,
                                           l.new_paths_with_terminal_symbol,
                                           l.new_path_score)
            IN loc' = [loc EXCEPT ![c].merged_paths = r.merged_paths,
                                  ![c].merged_path_scores = r.final_path_scores,
                                  ![c].pc = "select"]
    /\ UNCHANGED self

\* Lines 175-182: scan merged_paths for the best score and return.
Select(c) ==
    /\ IsBeamCall(c, "select")
    /\ LET l == loc[c] IN
       IF ~(l.merged_paths \subseteq DOMAIN l.merged_path_scores)
       THEN loc' = [loc EXCEPT ![c].pc = "error"]
       ELSE \E order \in ScanOrders(l.merged_paths) :
            LET r == ScanBest(order, l.merged_path_scores, Len(order)) IN
            loc' = [loc EXCEPT ![c].bestPath = r.bestPath,
                               ![c].FinalPathScore = r.FinalPathScore,
                               ![c].pc = "done"]
    /\ UNCHANGED self

NextBeam ==
    \/ \E c \in DOMAIN loc : Initialize(c)
    \/ \E c \in DOMAIN loc : Prune(c)
    \/ \E c \in DOMAIN loc : ExtendWithBlank(c)
    \/ \E c \in DOMAIN loc : ExtendWithSymbol(c)
    \/ \E c \in DOMAIN loc : Merge(c)
    \/ \E c \in DOMAIN loc : Select(c)

\* A decoder built with a beam width of at least 1 and one decode call on a
\* tensor with batch size 1 and one class per symbol plus the blank.
Init ==
    \E a \in SymbolSets, k \in 1..MaxBeamWidth :
        /\ self = BeamSearchDecoder(a, k)
        /\ \E y \in UNION {Tensors(Len(a) + 1, T, 1) : T \in 0..MaxLength(a)} :
              loc = [c \in {1} |-> NewCall(y)]

Spec == Init /\ [][NextBeam]_vars

\* One decode call of a decoder with at most one symbol on an input that gives
\* probability 1 to one class at each timestep.
InitFair ==
    \E a \in {b \in SymbolSets : Len(b) <= 1}, k \in 1..MaxBeamWidth :
        /\ self = BeamSearchDecoder(a, k)
        /\ \E idx \in UNION {[1..T -> 0..Len(a)] : T \in 0..MaxT} :
              loc = [c \in {1} |-> NewCall(OneHot(Len(a) + 1, idx))]

\* decode runs on one thread from its first statement to its return: a phase
\* that can run does run.
SpecFair == InitFair /\ [][NextBeam]_vars /\ WF_vars(NextBeam)

\* ---- decode as a function: a call that runs alone ------------------------

\* One pass through the body of the loop of line 140 (lines 141-166) with loop
\* variable t, the loop of line 303 visiting the pruned paths in blank_order;
\* st holds the four new_* locals.
LoopBody(symbol_set, beam_width, y, t, st, pr, blank_order) ==
    LET obj == [symbol_set |-> symbol_set,
                blank_path_score |-> pr.pruned_blank_path_score,
                path_score |-> pr.pruned_path_score]
        eb == extend_with_blank(obj, pr.pruned_paths_with_terminal_blank,
                                pr.pruned_paths_with_terminal_symbol, Column(y, t))
        es == extend_with_symbol(obj, blank_order,
                                 pr.pruned_paths_with_terminal_symbol, Column(y, t))
    IN [new_paths_with_terminal_blank |-> eb.updated_paths_with_terminal_blank,
        new_paths_with_terminal_symbol |-> es.updated_paths_with_terminal_symbol,
        new_blank_path_score |-> eb.updated_blank_path_score,
        new_path_score |-> es.updated_path_score]

\* The loop of lines 140-166 from loop variable t on: the values the four new_*
\* locals can have at its end, one for every order in which the loops of line
\* 303 can visit the pruned paths.
RECURSIVE DecodeLoop(_, _, _, _, _)
DecodeLoop(symbol_set, beam_width, y, t, st) ==
    IF t >= y.shape[2] THEN {st}
    ELSE LET pr == prune(st.new_paths_with_terminal_blank,
                         st.new_paths_with_terminal_symbol,
                         st.new_blank_path_score, st.new_path_score, beam_width)
             after == {LoopBody(symbol_set, beam_width, y, t, st, pr, blank_order) :
                          blank_order \in Orders(pr.pruned_paths_with_terminal_blank)}
         IN UNION {DecodeLoop(symbol_set, beam_width, y, t + 1, next) : next \in after}

\* The values merged_paths and merged_path_scores can have in a call that runs
\* alone (T >= 1, beam_width >= 1, a tensor of the decoder's shape).
DecodeAlone(symbol_set, beam_width, y) ==
    LET i == initialize_paths(symbol_set, y)
    IN {merge_identical_paths(st.new_paths_with_terminal_blank, st.new_blank_path_score,
                              st.new_paths_with_terminal_symbol, st.new_path_score) :
           st \in DecodeLoop(symbol_set, beam_width, y, 1,
                     [new_paths_with_terminal_blank |-> i.initial_paths_with_final_blank,
                      new_paths_with_terminal_symbol |-> i.initial_paths_with_final_symbols,
                      new_blank_path_score |-> i.initial_blank_path_score,
                      new_path_score |-> i.initial_path_score])}

\* ---- decode on a decoder shared by several calls --------------------------
\* Nothing in decode keeps another call of the same decoder from running
\* between two of its statements.  The calls share self.blank_path_score and
\* self.path_score only, so a step is one store to, or one read of, one of the
\* two attributes together with the statements on locals around it.

\* Line 130.
ResetBlankPathScore(c) ==
    /\ IsBeamCall(c, "start")
    /\ self' = [self EXCEPT !.blank_path_score = EmptyDict]
    /\ loc' = [loc EXCEPT ![c].pc = "reset_path_score"]

\* Lines 131-138.
ResetPathScore(c) ==
    /\ IsBeamCall(c, "reset_path_score")
    /\ self' = [self EXCEPT !.path_score = EmptyDict]
    /\ LET y == loc[c].y_probs IN
       IF initialize_paths_raises(self.symbol_set, y)
       THEN loc' = [loc EXCEPT ![c].pc = "error"]
       ELSE LET r == initialize_paths(self.symbol_set, y) IN
            loc' = [loc EXCEPT
                ![c].new_paths_with_terminal_blank = r.initial_paths_with_final_blank,
                ![c].new_paths_with_terminal_symbol = r.initial_paths_with_final_symbols,
                ![c].new_blank_path_score = r.initial_blank_path_score,
                ![c].new_path_score = r.initial_path_score,
                ![c].t = 1,
                ![c].pc = LoopOrMerge(y, 1)]

\* The call of prune and the stores of lines 142-144, the last one to
\* self.blank_path_score.  The two pruned sets are new objects; each is
\* iterated in one order for as long as it lives.
StoreBlankPathScore(c) ==
    /\ IsBeamCall(c, "prune")
    /\ LET l == loc[c] IN
       IF prune_raises(l.new_paths_with_terminal_blank, l.new_paths_with_terminal_symbol,
                       l.new_blank_path_score, l.new_path_score, self.beam_width)
       THEN loc' = [loc EXCEPT ![c].pc = "error"] /\ UNCHANGED self
       ELSE LET r == prune(l.new_paths_with_terminal_blank,
                           l.new_paths_with_terminal_symbol,
                           l.new_blank_path_score, l.new_path_score, self.beam_width)
            IN /\ \E blank_order \in Orders(r.pruned_paths_with_terminal_blank),
                     symbol_order \in Orders(r.pruned_paths_with_terminal_symbol) :
                    loc' = [loc EXCEPT
                      ![c].paths_with_terminal_blank = r.pruned_paths_with_terminal_blank,
                      ![c].paths_with_terminal_symbol = r.pruned_paths_with_terminal_symbol,
                      ![c].blank_order = blank_order,
                      ![c].symbol_order = symbol_order,
                      ![c].pruned_path_score = r.pruned_path_score,
                      ![c].pc = "store_path_score"]
               /\ self' = [self EXCEPT !.blank_path_score = r.pruned_blank_path_score]

\* The store to self.path_score (line 145) and lines 273-274.
StorePathScore(c) ==
    /\ IsBeamCall(c, "store_path_score")
    /\ self' = [self EXCEPT !.path_score = loc[c].pruned_path_score]
    /\ loc' = [loc EXCEPT ![c].updated_paths_with_terminal_blank = {},
                          ![c].updated_blank_path_score = EmptyDict,
                          ![c].visited = 0,
                          ![c].pc = "extend_with_blank"]

\* The loop of line 277: one iteration (lines 278-279), or its end.
BlankFromBlankPath(c) ==
    /\ IsBeamCall(c, "extend_with_blank")
    /\ LET l == loc[c]
           y_probs == Column(l.y_probs, l.t)
       IN IF l.visited = Len(l.blank_order)
          THEN loc' = [loc EXCEPT ![c].visited = 0,
                                  ![c].pc = "extend_with_blank_second_loop"]
          ELSE LET path == l.blank_order[l.visited + 1] IN
               IF path \notin DOMAIN self.blank_path_score \/ 0 \notin DOMAIN y_probs
               THEN loc' = [loc EXCEPT
                      ![c].updated_paths_with_terminal_blank = @ \cup {path},
                      ![c].pc = "error"]
               ELSE loc' = [loc EXCEPT
                      ![c].updated_paths_with_terminal_blank = @ \cup {path},
                      ![c].updated_blank_path_score =
                          DictSet(@, path, self.blank_path_score[path] * y_probs[0]),
                      ![c].visited = @ + 1]
    /\ UNCHANGED self

\* The loop of line 282: one iteration (lines 283-287), or its end with the
\* return of extend_with_blank (lines 154-161, 288) and lines 299-300.
BlankFromSymbolPath(c) ==
    /\ IsBeamCall(c, "extend_with_blank_second_loop")
    /\ LET l == loc[c]
           y_probs == Column(l.y_probs, l.t)
       IN IF l.visited = Len(l.symbol_order)
          THEN loc' = [loc EXCEPT
                 ![c].new_paths_with_terminal_blank = l.updated_paths_with_terminal_blank,
                 ![c].new_blank_path_score = l.updated_blank_path_score,
                 ![c].updated_paths_with_terminal_symbol = {},
                 ![c].updated_path_score = EmptyDict,
                 ![c].visited = 0,
                 ![c].pc = "extend_with_symbol"]
          ELSE LET path == l.symbol_order[l.visited + 1]
                   raises == path \notin DOMAIN self.path_score \/ 0 \notin DOMAIN y_probs
               IN IF path \in l.updated_paths_with_terminal_blank
                  THEN IF raises
                       THEN loc' = [loc EXCEPT ![c].pc = "error"]
                       ELSE loc' = [loc EXCEPT
                              ![c].updated_blank_path_score =
                                  DictSet(@, path, @[path] + self.path_score[path] * y_probs[0]),
                              ![c].visited = @ + 1]
                  ELSE IF raises
                       THEN loc' = [loc EXCEPT
                              ![c].updated_paths_with_terminal_blank = @ \cup {path},
                              ![c].pc = "error"]
                       ELSE loc' = [loc EXCEPT
                              ![c].updated_paths_with_terminal_blank = @ \cup {path},
                              ![c].updated_blank_path_score =
                                  DictSet(@, path, self.path_score[path] * y_probs[0]),
                              ![c].visited = @ + 1]
    /\ UNCHANGED self

\* The loops of lines 303-304: one iteration of the inner loop (lines 305-309),
\* or the end of the outer loop.
SymbolFromBlankPath(c) ==
    /\ IsBeamCall(c, "extend_with_symbol")
    /\ LET l == loc[c]
           y_probs == Column(l.y_probs, l.t)
           pairs == LoopPairs(l.blank_order, Len(self.symbol_set))
       IN IF l.visited = Len(pairs)
          THEN loc' = [loc EXCEPT ![c].visited = 0,
                                  ![c].pc = "extend_with_symbol_second_loop"]
          ELSE LET path == pairs[l.visited + 1][1]
                   i == pairs[l.visited + 1][2]
                   new_path == path \o self.symbol_set[i]
               IN IF path \notin DOMAIN self.blank_path_score \/ i \notin DOMAIN y_probs
                  THEN loc' = [loc EXCEPT
                         ![c].updated_paths_with_terminal_symbol = @ \cup {new_path},
                         ![c].pc = "error"]
                  ELSE loc' = [loc EXCEPT
                         ![c].updated_paths_with_terminal_symbol = @ \cup {new_path},
                         ![c].updated_path_score =
                             DictSet(@, new_path, self.blank_path_score[path] * y_probs[i]),
                         ![c].visited = @ + 1]
    /\ UNCHANGED self

\* The loops of lines 312-313: one iteration of the inner loop (lines 314-320),
\* or the end of the outer loop with the return of extend_with_symbol (lines
\* 164-166, 322) and the advance of the loop of line 140.
SymbolFromSymbolPath(c) ==
    /\ IsBeamCall(c, "extend_with_symbol_second_loop")
    /\ LET l == loc[c]
           y_probs == Column(l.y_probs, l.t)
           pairs == LoopPairs(l.symbol_order, Len(self.symbol_set))
       IN IF l.visited = Len(pairs)
          THEN loc' = [loc EXCEPT
                 ![c].new_paths_with_terminal_symbol = l.updated_paths_with_terminal_symbol,
                 ![c].new_path_score = l.updated_path_score,
                 ![c].visited = 0,
                 ![c].t = l.t + 1,
                 ![c].pc = LoopOrMerge(l.y_probs, l.t + 1)]
          ELSE LET path == pairs[l.visited + 1][1]
                   i == pairs[l.visited + 1][2]
               IN IF \/ path = <<>>
                     \/ path \notin DOMAIN self.path_score
                     \/ i \notin DOMAIN y_probs
                  THEN loc' = [loc EXCEPT ![c].pc = "error"]
                  ELSE LET new_path == SymbolExtension(path, self.symbol_set[i])
                           prob == self.path_score[path] * y_probs[i]
                       IN IF new_path \in l.updated_paths_with_terminal_symbol
                          THEN loc' = [loc EXCEPT
                                 ![c].updated_path_score =
                                     DictSet(@, new_path, @[new_path] + prob),
                                 ![c].visited = @ + 1]
                          ELSE loc' = [loc EXCEPT
                                 ![c].updated_paths_with_terminal_symbol = @ \cup {new_path},
                                 ![c].updated_path_score = DictSet(@, new_path, prob),
                                 ![c].visited = @ + 1]
    /\ UNCHANGED self

\* Merge and Select work on locals only.
NextConcurrent ==
    \/ \E c \in DOMAIN loc : ResetBlankPathScore(c)
    \/ \E c \in DOMAIN loc : ResetPathScore(c)
    \/ \E c \in DOMAIN loc : StoreBlankPathScore(c)
    \/ \E c \in DOMAIN loc : StorePathScore(c)
    \/ \E c \in DOMAIN loc : BlankFromBlankPath(c)
    \/ \E c \in DOMAIN loc : BlankFromSymbolPath(c)
    \/ \E c \in DOMAIN loc : SymbolFromBlankPath(c)
    \/ \E c \in DOMAIN loc : SymbolFromSymbolPath(c)
    \/ \E c \in DOMAIN loc : Merge(c)
    \/ \E c \in DOMAIN loc : Select(c)

MaxConcurrentT == 2

\* Two decode calls on one decoder instance.
InitConcurrent ==
    \E k \in 1..MaxBeamWidth :
        /\ self = BeamSearchDecoder(<<(<<"a">>)>>, k)
        /\ \E y1, y2 \in UNION {Tensors(2, T, 1) : T \in 1..MaxConcurrentT} :
              loc = [c \in {1, 2} |-> NewCall(IF c = 1 THEN y1 ELSE y2)]

SpecConcurrent == InitConcurrent /\ [][NextConcurrent]_vars

\* ---- other specifications ------------------------------------------------

\* Inputs without ties: at every timestep the class probabilities are positive
\* and pairwise distinct.
TieFreeColumns(classes) ==
    {col \in [0..(classes - 1) -> 1..(classes + 1)] :
        \A r, s \in 0..(classes - 1) : r # s => col[r] # col[s]}

TieFreeTensors(classes, T) ==
    {[shape |-> <<classes, T, 1>>,
      at |-> [s \in 0..(classes - 1) |-> [t \in 0..(T - 1) |-> cols[t][s]]]] :
        cols \in [0..(T - 1) -> TieFreeColumns(classes)]}

\* A decoder with beam width 1 and one decode call on an input without ties.
InitTieFree ==
    \E a \in SymbolSets :
        /\ self = BeamSearchDecoder(a, 1)
        /\ \E y \in UNION {TieFreeTensors(Len(a) + 1, T) : T \in 1..MaxLength(a)} :
              loc = [c \in {1} |-> NewCall(y)]

SpecTieFree == InitTieFree /\ [][NextBeam]_vars

\* An alphabet of distinct non-empty strings in which one symbol is a prefix of
\* another one.
PrefixSymbols == <<(<<"a">>), (<<"a", "a">>)>>

InitSharedPrefix ==
    \E k \in 1..MaxBeamWidth :
        /\ self = BeamSearchDecoder(PrefixSymbols, k)
        /\ \E y \in UNION {Tensors(Len(PrefixSymbols) + 1, T, 1) : T \in 1..MaxT} :
              loc = [c \in {1} |-> NewCall(y)]

SpecSharedPrefix == InitSharedPrefix /\ [][NextBeam]_vars

\* Constructor arguments and tensors as the code accepts them: neither
\* __init__ nor decode checks the beam width or the shape.
UncheckedSymbolSets == {<<>>, <<(<<"a">>)>>}

UncheckedTensors(a) ==
    UNION {Tensors(classes, T, batch) :
              classes \in Len(a)..(Len(a) + 2), T \in 0..MaxT, batch \in {1, 2}}

InitUnchecked ==
    \E a \in UncheckedSymbolSets :
        /\ \/ self = [class |-> "GreedySearchDecoder", symbol_set |-> a]
           \/ \E k \in (-1)..MaxBeamWidth : self = BeamSearchDecoder(a, k)
        /\ \E y \in UncheckedTensors(a) : loc = [c \in {1} |-> NewCall(y)]

Next == NextGreedy \/ NextBeam

SpecUnchecked == InitUnchecked /\ [][Next]_vars

(***************************************************************************)
(* Claims about GreedySearchDecoder                                        *)
(***************************************************************************)
GreedyDone(c) == self.class = "GreedySearchDecoder" /\ loc[c].pc = "done"

\* C1: decoding the class-index sequence [0,1,1,0,1,2,2,0] (blank = 0, alphabet
\* [a, b], the listed class at probability 1 and the others at 0) returns "aba".
C1_GreedyCollapsingLaw ==
    \A c \in DOMAIN loc :
        (GreedyDone(c) /\ self.symbol_set = LawSymbols
                       /\ loc[c].y_probs = OneHot(3, LawIndices))
            => loc[c].decoded_path = <<"a", "b", "a">>

\* The class of maximum probability at timestep t, lowest index on ties.
ArgmaxLowest(y, t) ==
    CHOOSE s \in 0..(y.shape[1] - 1) :
        /\ \A r \in 0..(y.shape[1] - 1) : y.at[r][t] <= y.at[s][t]
        /\ \A r \in 0..(s - 1) : y.at[r][t] < y.at[s][t]

IsNotBlank(k) == k # 0

\* A sequence without the elements equal to their immediate predecessor.
RECURSIVE DropRepeats(_)
DropRepeats(s) ==
    IF Len(s) <= 1 THEN s
    ELSE LET front == DropRepeats(SubSeq(s, 1, Len(s) - 1)) IN
         IF s[Len(s)] = s[Len(s) - 1] THEN front ELSE Append(front, s[Len(s)])

RECURSIVE Flatten(_)
Flatten(ss) == IF ss = <<>> THEN <<>> ELSE Head(ss) \o Flatten(Tail(ss))

RECURSIVE ProductOfMaxima(_, _)
ProductOfMaxima(y, T) ==
    IF T = 0 THEN 1
    ELSE ProductOfMaxima(y, T - 1) * y.at[ArgmaxLowest(y, T - 1)][T - 1]

CollapsedArgmaxString(symbol_set, y) ==
    LET classes == [t \in 1..y.shape[2] |-> ArgmaxLowest(y, t - 1)]
        blankFree == SelectSeq(classes, IsNotBlank)
        kept == DropRepeats(blankFree)
    IN Flatten([i \in 1..Len(kept) |-> symbol_set[kept[i]]])

\* C2: greedy decode returns (s, p): s is the per-timestep argmax (lowest index
\* on ties) with blanks dropped and then every symbol equal to its predecessor
\* dropped; p is the product of the per-timestep maxima; ("", 1) for T = 0.
C2_GreedyDecode ==
    \A c \in DOMAIN loc :
        GreedyDone(c) =>
            /\ loc[c].decoded_path = CollapsedArgmaxString(self.symbol_set, loc[c].y_probs)
            /\ loc[c].path_prob = ProductOfMaxima(loc[c].y_probs, loc[c].y_probs.shape[2])
            /\ loc[c].y_probs.shape[2] = 0
                   => loc[c].decoded_path = <<>> /\ loc[c].path_prob = 1

\* A finished call whose input has a tie for the maximum between the two
\* symbols, and whose working sequence held a repeated symbol.
C2_Witness ==
    \E c \in DOMAIN loc :
        /\ GreedyDone(c)
        /\ Len(self.symbol_set) = 2
        /\ \E t \in 0..(loc[c].y_probs.shape[2] - 1) :
               /\ loc[c].y_probs.at[1][t] = loc[c].y_probs.at[2][t]
               /\ loc[c].y_probs.at[0][t] < loc[c].y_probs.at[1][t]
        /\ loc[c].uncompressed_path = <<(<<"a">>), (<<"a">>)>>
        /\ loc[c].decoded_path = <<"a">>
        /\ loc[c].path_prob > 0

(***************************************************************************)
(* Claims about BeamSearchDecoder                                          *)
(***************************************************************************)

\* The results the final scan can return for a merged map.
BestPaths(merged) ==
    {ScanBest(o, merged.final_path_scores, Len(o)).bestPath :
        o \in ScanOrders(merged.merged_paths)}

\* C3: two decode calls running concurrently on one decoder instance both
\* complete without error and each returns what it returns when run alone,
\* under every interleaving of their phases (and of the statements within the
\* phases, which the code interleaves as well).
C3_ConcurrentCallsIndependent ==
    \A c \in DOMAIN loc :
        /\ loc[c].pc # "error"
        /\ IsBeamCall(c, "done") =>
              \E alone \in DecodeAlone(self.symbol_set, self.beam_width, loc[c].y_probs) :
                 /\ loc[c].merged_path_scores = alone.final_path_scores
                 /\ loc[c].bestPath \in BestPaths(alone)

\* c is a suffix of path.
EndsWith(path, c) ==
    Len(c) <= Len(path) /\ SubSeq(path, Len(path) - Len(c) + 1, Len(path)) = c

\* No symbol is a suffix of another one: the last symbol of a symbol-terminated
\* path is then the one symbol the path ends with.
SuffixFree(symbol_set) ==
    \A i, j \in 1..Len(symbol_set) :
        /\ symbol_set[i] # <<>>
        /\ i # j => ~EndsWith(symbol_set[i], symbol_set[j])

JustExtended(c) ==
    /\ self.class = "BeamSearchDecoder"
    /\ loc[c].pc \in {"prune", "merge_identical_paths"}
    /\ loc[c].t >= 2

\* C4: extending a surviving symbol-terminated path with the symbol it ends in
\* yields the path unchanged, with any other symbol d yields path + d, and
\* extending a surviving blank-terminated path with c yields path + c; stated
\* for alphabets in which the last symbol of a path is unambiguous.
C4_SymbolExtensionCollapses ==
    \A c \in DOMAIN loc :
        (JustExtended(c) /\ SuffixFree(self.symbol_set)) =>
            LET l == loc[c]
                symbols == {self.symbol_set[i] : i \in 1..Len(self.symbol_set)}
                claimed(path, sym) == IF EndsWith(path, sym) THEN path ELSE path \o sym
            IN /\ \A path \in l.paths_with_terminal_symbol : \A sym \in symbols :
                      SymbolExtension(path, sym) = claimed(path, sym)
               /\ l.new_paths_with_terminal_symbol =
                      {path \o sym : path \in l.paths_with_terminal_blank, sym \in symbols}
                      \cup {claimed(path, sym) :
                               path \in l.paths_with_terminal_symbol, sym \in symbols}

\* The path instances handed to prune: <<"blank", path>> and <<"symbol", path>>.
PruneInput(l) ==
    ({"blank"} \X l.new_paths_with_terminal_blank) \cup
    ({"symbol"} \X l.new_paths_with_terminal_symbol)

PruneOutput(l) ==
    ({"blank"} \X l.paths_with_terminal_blank) \cup
    ({"symbol"} \X l.paths_with_terminal_symbol)

InputScore(l, inst) ==
    IF inst[1] = "blank" THEN l.new_blank_path_score[inst[2]]
                         ELSE l.new_path_score[inst[2]]

\* v is the K-th largest input score, or the minimum when fewer than K exist.
IsCutoff(l, K, v) ==
    LET in == PruneInput(l)
        above == {x \in in : InputScore(l, x) > v}
        atLeast == {x \in in : InputScore(l, x) >= v}
    IN /\ \E x \in in : InputScore(l, x) = v
       /\ IF Cardinality(in) >= K
          THEN Cardinality(above) < K /\ Cardinality(atLeast) >= K
          ELSE atLeast = in

JustPruned(c) == IsBeamCall(c, "extend_with_blank")

\* C5: prune keeps exactly the path instances, from either set, whose score is
\* >= the K-th largest score (the minimum when fewer than K instances exist):
\* ties at the cutoff all survive, everything strictly below is removed, and
\* nothing is removed when fewer than K instances exist.
C5_PruneKeepsScoresAtLeastCutoff ==
    \A c \in DOMAIN loc :
        JustPruned(c) =>
            LET l == loc[c]
                K == self.beam_width
            IN /\ \E v \in {InputScore(l, x) : x \in PruneInput(l)} :
                      /\ IsCutoff(l, K, v)
                      /\ PruneOutput(l) = {x \in PruneInput(l) : InputScore(l, x) >= v}
               /\ Cardinality(PruneInput(l)) < K => PruneOutput(l) = PruneInput(l)

\* Ties at the cutoff made more than K instances survive while another
\* instance was removed.
C5_Witness ==
    \E c \in DOMAIN loc :
        /\ JustPruned(c)
        /\ Cardinality(PruneOutput(loc[c])) > self.beam_width
        /\ PruneOutput(loc[c]) # PruneInput(loc[c])
        /\ loc[c].t = 2

\* C6: merge_identical_paths returns a map keyed by the union of the two final
\* sets; a string in both has the sum of its two scores, a string in one set
\* that set's score; the input sets and score maps are left as they were.
C6_MergeSumsBothScores ==
    [][\A c \in DOMAIN loc :
          (IsBeamCall(c, "merge_identical_paths") /\ loc'[c].pc = "select") =>
              LET l == loc[c]
                  m == loc'[c]
                  B == l.new_paths_with_terminal_blank
                  S == l.new_paths_with_terminal_symbol
              IN /\ DOMAIN m.merged_path_scores = B \cup S
                 /\ m.merged_paths = B \cup S
                 /\ \A p \in B \cap S :
                       m.merged_path_scores[p] = l.new_path_score[p] + l.new_blank_path_score[p]
                 /\ \A p \in B \ S : m.merged_path_scores[p] = l.new_blank_path_score[p]
                 /\ \A p \in S \ B : m.merged_path_scores[p] = l.new_path_score[p]
                 /\ m.new_paths_with_terminal_blank = B
                 /\ m.new_paths_with_terminal_symbol = S
                 /\ m.new_blank_path_score = l.new_blank_path_score
                 /\ m.new_path_score = l.new_path_score]_vars

\* A merged string that is in both sets with two positive scores, next to a
\* string of only one set.
C6_Witness ==
    \E c \in DOMAIN loc :
        /\ IsBeamCall(c, "select")
        /\ \E p \in loc[c].new_paths_with_terminal_blank \cap
                    loc[c].new_paths_with_terminal_symbol :
              /\ loc[c].new_blank_path_score[p] > 0
              /\ loc[c].new_path_score[p] > 0
              /\ loc[c].merged_path_scores[p] =
                    loc[c].new_blank_path_score[p] + loc[c].new_path_score[p]
        /\ loc[c].new_paths_with_terminal_blank # loc[c].new_paths_with_terminal_symbol

\* C7: for T >= 1 the returned bestPath is a key of the returned merged score
\* map and no key has a greater merged score; it is never None.
C7_BestPathHasMaximalScore ==
    \A c \in DOMAIN loc :
        (IsBeamCall(c, "done") /\ loc[c].y_probs.shape[2] >= 1) =>
            /\ loc[c].bestPath # None
            /\ loc[c].bestPath \in DOMAIN loc[c].merged_path_scores
            /\ \A q \in DOMAIN loc[c].merged_path_scores :
                  loc[c].merged_path_scores[q] <= loc[c].merged_path_scores[loc[c].bestPath]

\* A finished call whose merged map holds three different scores.
C7_Witness ==
    \E c \in DOMAIN loc :
        /\ IsBeamCall(c, "done")
        /\ loc[c].bestPath \in DOMAIN loc[c].merged_path_scores
        /\ Cardinality({loc[c].merged_path_scores[q] :
                           q \in DOMAIN loc[c].merged_path_scores}) >= 3
        /\ loc[c].FinalPathScore = loc[c].merged_path_scores[loc[c].bestPath]

\* C8: a decoder built with beamWidth < 1 is rejected at construction, so no
\* decode call ever runs on a decoder whose beam width is below 1.
C8_BeamWidthBelowOneRejected ==
    \A c \in DOMAIN loc :
        (self.class = "BeamSearchDecoder" /\ loc[c].pc # "start") => self.beam_width >= 1

\* C9: decode (greedy and beam search) fails at its start, before any path or
\* score is computed, when the batch axis is not 1 or the class axis is not
\* |alphabet| + 1; it returns no result for such an input.
C9_ShapeViolationsFailFast ==
    \A c \in DOMAIN loc :
        LET y == loc[c].y_probs IN
        (y.shape[3] # 1 \/ y.shape[1] # Len(self.symbol_set) + 1) =>
            /\ loc[c].pc \in {"start", "error"}
            /\ loc[c] = [NewCall(y) EXCEPT !.pc = loc[c].pc]

\* C10: beam search decode does not crash when T = 0 or when the alphabet is
\* empty; with an empty alphabet and T >= 1 every path in both sets is the
\* empty string at every timestep and the best path returned is the empty string.
C10_DegenerateInputsDoNotCrash ==
    \A c \in DOMAIN loc :
        LET l == loc[c] IN
        (self.class = "BeamSearchDecoder"
            /\ (l.y_probs.shape[2] = 0 \/ self.symbol_set = <<>>)) =>
            /\ l.pc # "error"
            /\ (self.symbol_set = <<>> /\ l.y_probs.shape[2] >= 1) =>
                  /\ l.new_paths_with_terminal_blank \cup l.new_paths_with_terminal_symbol
                        \cup l.paths_with_terminal_blank \cup l.paths_with_terminal_symbol
                        \subseteq {<<>>}
                  /\ l.pc = "done" => l.bestPath = <<>>

\* Every symbol of the alphabet is one character.
SingleCharacterSymbols(symbol_set) ==
    \A i \in 1..Len(symbol_set) : Len(symbol_set[i]) = 1

\* C11: with beamWidth = 1 and an input without ties, the best path returned by
\* the beam search equals the string the greedy decoder returns for the same
\* input and alphabet (stated here for alphabets of one-character symbols).
C11_BeamWidthOneEqualsGreedy ==
    \A c \in DOMAIN loc :
        (IsBeamCall(c, "done") /\ self.beam_width = 1
            /\ SingleCharacterSymbols(self.symbol_set)) =>
            loc[c].bestPath = GreedyDecode(self.symbol_set, loc[c].y_probs).decoded_path

\* The score prune kept for an instance.
KeptScore(inst) ==
    IF inst[1] = "blank" THEN self.blank_path_score[inst[2]] ELSE self.path_score[inst[2]]

\* C11 (amended): with beamWidth = 1 and an input without ties, every prune
\* keeps exactly one path instance and its score is the greedy path probability
\* of the timesteps decoded so far; the best path equals the greedy string when
\* T = 1.
C11_BeamWidthOneTracksGreedyScore ==
    \A c \in DOMAIN loc :
        LET l == loc[c] IN
        /\ (JustPruned(c) /\ self.beam_width = 1) =>
              /\ Cardinality(PruneOutput(l)) = 1
              /\ \A inst \in PruneOutput(l) :
                    KeptScore(inst) = GreedyLoop(self.symbol_set, l.y_probs, l.t).path_prob
        /\ (IsBeamCall(c, "done") /\ self.beam_width = 1 /\ l.y_probs.shape[2] = 1) =>
              l.bestPath = GreedyDecode(self.symbol_set, l.y_probs).decoded_path

\* The second prune of a call chose between the two instances of "a" and kept
\* the blank-terminated one.
C11_Witness ==
    \E c \in DOMAIN loc :
        /\ JustPruned(c)
        /\ self.beam_width = 1
        /\ loc[c].t = 2
        /\ PruneInput(loc[c]) = {<<"blank", <<"a">> >>, <<"symbol", <<"a">> >>}
        /\ PruneOutput(loc[c]) = {<<"blank", <<"a">> >>}

\* The sum of the values of a score map.
RECURSIVE SumOfScores(_)
SumOfScores(d) ==
    IF DOMAIN d = {} THEN 0
    ELSE LET k == CHOOSE x \in DOMAIN d : TRUE
         IN d[k] + SumOfScores([x \in DOMAIN d \ {k} |-> d[x]])

\* The sum of the class probabilities of timestep t.
RECURSIVE ColumnSum(_, _, _)
ColumnSum(y, t, classes) ==
    IF classes = 0 THEN 0 ELSE ColumnSum(y, t, classes - 1) + y.at[classes - 1][t]

\* The product of the column sums of timesteps from .. T-1: the total joint
\* probability of all class-index sequences over these timesteps.
RECURSIVE ProductOfColumnSums(_, _, _)
ProductOfColumnSums(y, from, T) ==
    IF from >= T THEN 1
    ELSE ColumnSum(y, from, y.shape[1]) * ProductOfColumnSums(y, from + 1, T)

\* C12: for beamWidth >= 1, T >= 1 and non-negative input, the scores of the
\* merged map returned by decode sum to at most the product over the timesteps
\* of the sum of the timestep's class probabilities.
C12_MergedMassBounded ==
    \A c \in DOMAIN loc :
        (IsBeamCall(c, "done") /\ loc[c].y_probs.shape[2] >= 1) =>
            SumOfScores(loc[c].merged_path_scores)
                <= ProductOfColumnSums(loc[c].y_probs, 0, loc[c].y_probs.shape[2])

\* A finished call of three timesteps in which pruning removed positive mass
\* and positive mass was returned.
C12_Witness ==
    \E c \in DOMAIN loc :
        /\ IsBeamCall(c, "done")
        /\ loc[c].y_probs.shape[2] = 3
        /\ SumOfScores(loc[c].merged_path_scores) > 0
        /\ SumOfScores(loc[c].merged_path_scores)
              < ProductOfColumnSums(loc[c].y_probs, 0, 3)

\* The (origin set, surviving origin path, symbol position) triples that
\* extend_with_symbol visits.
Contributions(l) ==
    ({"blank"} \X l.paths_with_terminal_blank \X (1..Len(self.symbol_set))) \cup
    ({"symbol"} \X l.paths_with_terminal_symbol \X (1..Len(self.symbol_set)))

\* The string a contribution yields (lines 306 and 314).
Yield(x) ==
    IF x[1] = "blank" THEN x[2] \o self.symbol_set[x[3]]
                      ELSE SymbolExtension(x[2], self.symbol_set[x[3]])

\* origin score x probability of the symbol at the timestep just extended.
Contribution(l, x) ==
    KeptScore(<<x[1], x[2]>>) * l.y_probs.at[x[3]][l.t - 1]

\* C13: after extend_with_symbol the score of each resulting string is the sum,
\* over all (surviving origin path, symbol) pairs that yield the string, of
\* origin score x probability of the symbol: no contribution is overwritten or
\* dropped, also not among the candidates formed from blank-terminated paths.
C13_SymbolExtensionAccumulatesAll ==
    \A c \in DOMAIN loc :
        JustExtended(c) =>
            LET l == loc[c]
                all == Contributions(l)
                value == [x \in all |-> Contribution(l, x)]
            IN /\ DOMAIN l.new_path_score = {Yield(x) : x \in all}
               /\ l.new_paths_with_terminal_symbol = {Yield(x) : x \in all}
               /\ \A q \in DOMAIN l.new_path_score :
                     l.new_path_score[q] =
                        SumOfScores([x \in {z \in all : Yield(z) = q} |-> value[x]])

\* C14: extend_with_blank returns the union of the surviving blank-terminated
\* and symbol-terminated sets, each string scored (its surviving blank score,
\* if any, + its surviving symbol score, if any) x the blank probability of the
\* current timestep; the surviving sets and the pruned score maps stay as they
\* were.
C14_BlankExtensionSumsBothOrigins ==
    [][\A c \in DOMAIN loc :
          (IsBeamCall(c, "extend_with_blank") /\ loc'[c].pc = "extend_with_symbol") =>
              LET l == loc[c]
                  m == loc'[c]
                  B == l.paths_with_terminal_blank
                  S == l.paths_with_terminal_symbol
                  blank == l.y_probs.at[0][l.t]
                  fromBlank(p) == IF p \in B THEN self.blank_path_score[p] ELSE 0
                  fromSymbol(p) == IF p \in S THEN self.path_score[p] ELSE 0
              IN /\ m.new_paths_with_terminal_blank = B \cup S
                 /\ DOMAIN m.new_blank_path_score = B \cup S
                 /\ \A p \in B \cup S :
                       m.new_blank_path_score[p] = (fromBlank(p) + fromSymbol(p)) * blank
                 /\ m.paths_with_terminal_blank = B
                 /\ m.paths_with_terminal_symbol = S
                 /\ self' = self]_vars

\* extend_with_blank has just given a string that survived in both sets the
\* sum of its two positive scores, next to a string that survived in one set.
C14_Witness ==
    \E c \in DOMAIN loc :
        /\ IsBeamCall(c, "extend_with_symbol")
        /\ \E p \in loc[c].paths_with_terminal_blank \cap loc[c].paths_with_terminal_symbol :
              /\ self.blank_path_score[p] > 0
              /\ self.path_score[p] > 0
              /\ loc[c].new_blank_path_score[p] = self.blank_path_score[p] + self.path_score[p]
        /\ loc[c].paths_with_terminal_blank # loc[c].paths_with_terminal_symbol

\* C15: at every invocation of prune (every timestep t in 1..T-1) the
\* blank-terminated set and the symbol-terminated set passed to prune are
\* disjoint.
C15_PruneInputsDisjoint ==
    \A c \in DOMAIN loc :
        IsBeamCall(c, "prune") =>
            loc[c].new_paths_with_terminal_blank \cap loc[c].new_paths_with_terminal_symbol = {}

\* C15 (amended): at the first invocation of prune (t = 1) the two sets passed
\* to prune are disjoint: the blank-terminated set holds the empty path only
\* and the symbol-terminated set the symbols of the alphabet.
C15_FirstPruneInputsDisjoint ==
    \A c \in DOMAIN loc :
        (IsBeamCall(c, "prune") /\ loc[c].t = 1) =>
            /\ loc[c].new_paths_with_terminal_blank = {<<>>}
            /\ loc[c].new_paths_with_terminal_symbol =
                  {self.symbol_set[i] : i \in 1..Len(self.symbol_set)}
            /\ loc[c].new_paths_with_terminal_blank
                  \cap loc[c].new_paths_with_terminal_symbol = {}

\* The first prune of a call with two symbols is about to run.
C15_Witness ==
    \E c \in DOMAIN loc :
        /\ IsBeamCall(c, "prune")
        /\ loc[c].t = 1
        /\ Cardinality(loc[c].new_paths_with_terminal_symbol) = 2
        /\ DOMAIN loc[c].new_path_score = loc[c].new_paths_with_terminal_symbol

\* C16: after every phase of a decode call the key set of each score map equals
\* its path set (candidates, survivors and merged result), and for T >= 1 no
\* score lookup fails.
C16_ScoreMapsMatchPathSets ==
    \A c \in DOMAIN loc :
        (self.class = "BeamSearchDecoder") =>
            LET l == loc[c] IN
            /\ DOMAIN l.new_blank_path_score = l.new_paths_with_terminal_blank
            /\ DOMAIN l.new_path_score = l.new_paths_with_terminal_symbol
            /\ DOMAIN self.blank_path_score = l.paths_with_terminal_blank
            /\ DOMAIN self.path_score = l.paths_with_terminal_symbol
            /\ DOMAIN l.merged_path_scores = l.merged_paths
            /\ l.y_probs.shape[2] >= 1 => l.pc # "error"

\* A call past its second extension whose prune removed a path: candidates,
\* survivors and their maps all differ from one another and are not empty.
C16_Witness ==
    \E c \in DOMAIN loc :
        /\ IsBeamCall(c, "select")
        /\ loc[c].t = 3
        /\ loc[c].paths_with_terminal_blank # {}
        /\ loc[c].paths_with_terminal_symbol # {}
        /\ loc[c].paths_with_terminal_blank # loc[c].new_paths_with_terminal_blank
        /\ loc[c].paths_with_terminal_symbol # loc[c].new_paths_with_terminal_symbol
        /\ Cardinality(loc[c].merged_paths) >= 3
        /\ DOMAIN self.path_score # DOMAIN loc[c].new_path_score

\* One step of call c follows the order of the phases.
PhaseOrder(c) ==
    LET l == loc[c]
        m == loc'[c]
        T == l.y_probs.shape[2]
    IN (T >= 1 /\ m # l) =>
        /\ l.pc = "start" =>
              /\ m.t = 1
              /\ m.pc = IF T > 1 THEN "prune" ELSE "merge_identical_paths"
        /\ l.pc = "prune" =>
              /\ l.t \in 1..(T - 1)
              /\ m.pc = "extend_with_blank" /\ m.t = l.t
        /\ l.pc = "extend_with_blank" =>
              /\ m.pc = "extend_with_symbol" /\ m.t = l.t
              /\ m.paths_with_terminal_blank = l.paths_with_terminal_blank
              /\ m.paths_with_terminal_symbol = l.paths_with_terminal_symbol
              /\ self' = self
        /\ l.pc = "extend_with_symbol" =>
              /\ m.t = l.t + 1
              /\ m.pc = IF l.t + 1 < T THEN "prune" ELSE "merge_identical_paths"
              /\ m.paths_with_terminal_blank = l.paths_with_terminal_blank
              /\ m.paths_with_terminal_symbol = l.paths_with_terminal_symbol
              /\ self' = self
        /\ l.pc = "merge_identical_paths" =>
              /\ l.t = T
              /\ m.pc = "select"
              /\ m.merged_paths =
                    l.new_paths_with_terminal_blank \cup l.new_paths_with_terminal_symbol
              /\ DOMAIN m.merged_path_scores = m.merged_paths
        /\ l.pc = "select" => m.pc = "done"
        /\ l.pc # "done"

\* C17: for T >= 1 a decode call runs initialize once, then prune,
\* extend_with_blank, extend_with_symbol for each t = 1..T-1 (both extensions on
\* the same pruned sets and the same t), then merge on every candidate of the
\* last extension, then select, and then it terminates.
C17_PhasesInOrderThenTerminate ==
    /\ [][\A c \in DOMAIN loc : PhaseOrder(c)]_vars
    /\ <>(loc[1].y_probs.shape[2] >= 1 => loc[1].pc = "done")

\* A call of three timesteps has returned after two rounds of the loop.
C17_Witness ==
    \E c \in DOMAIN loc :
        /\ IsBeamCall(c, "done")
        /\ loc[c].y_probs.shape[2] = 3
        /\ loc[c].t = 3
        /\ loc[c].bestPath # None
        /\ Cardinality(loc[c].merged_paths) >= 2

\* C18: for beamWidth K >= 1 and N >= 1 input instances, prune retains exactly
\* min(K, N) instances when the N scores are pairwise distinct, and always an
\* instance of maximum score; the retained instances are input instances, stay
\* in their set and keep their scores.
C18_PruneRetainsBeamWidth ==
    \A c \in DOMAIN loc :
        (JustPruned(c) /\ self.beam_width >= 1 /\ PruneInput(loc[c]) # {}) =>
            LET l == loc[c]
                in == PruneInput(l)
                out == PruneOutput(l)
                N == Cardinality(in)
                K == self.beam_width
            IN /\ (\A x1, x2 \in in : x1 # x2 => InputScore(l, x1) # InputScore(l, x2))
                     => Cardinality(out) = IF K < N THEN K ELSE N
               /\ \E x \in out : \A z \in in : InputScore(l, z) <= InputScore(l, x)
               /\ out \subseteq in
               /\ DOMAIN self.blank_path_score = l.paths_with_terminal_blank
               /\ DOMAIN self.path_score = l.paths_with_terminal_symbol
               /\ \A x \in out : KeptScore(x) = InputScore(l, x)

\* A prune with pairwise distinct scores and more instances than the beam
\* width: exactly beam-width many were kept, the others removed.
C18_Witness ==
    \E c \in DOMAIN loc :
        LET l == loc[c] IN
        /\ JustPruned(c)
        /\ Cardinality(PruneInput(l)) > self.beam_width
        /\ \A x1, x2 \in PruneInput(l) : x1 # x2 => InputScore(l, x1) # InputScore(l, x2)
        /\ Cardinality(PruneOutput(l)) = self.beam_width

\* C19: for beamWidth >= 1, T >= 1, an alphabet of one-character symbols and
\* non-negative input, the merged score of the best path returned by the beam
\* search is at least the path probability the greedy decoder returns for the
\* same input.
C19_BestScoreAtLeastGreedy ==
    \A c \in DOMAIN loc :
        (IsBeamCall(c, "done") /\ loc[c].y_probs.shape[2] >= 1
            /\ SingleCharacterSymbols(self.symbol_set)) =>
            /\ loc[c].bestPath \in DOMAIN loc[c].merged_path_scores
            /\ loc[c].merged_path_scores[loc[c].bestPath]
                  >= GreedyDecode(self.symbol_set, loc[c].y_probs).path_prob

\* A finished call whose pruning removed an instance and whose best path has a
\* merged score above the positive greedy path probability.
C19_Witness ==
    \E c \in DOMAIN loc :
        /\ IsBeamCall(c, "done")
        /\ self.symbol_set # <<>>
        /\ SingleCharacterSymbols(self.symbol_set)
        /\ GreedyDecode(self.symbol_set, loc[c].y_probs).path_prob > 0
        /\ loc[c].FinalPathScore > GreedyDecode(self.symbol_set, loc[c].y_probs).path_prob
        /\ Cardinality(PruneOutput(loc[c])) < Cardinality(loc[c].merged_paths)

\* The first t timesteps of y.
Truncate(y, t) == [shape |-> <<y.shape[1], t, y.shape[3]>>, at |-> y.at]

\* The candidates the prune of loop variable t can be handed.
CandidatesAt(symbol_set, beam_width, y, t) ==
    LET i == initialize_paths(symbol_set, y)
    IN DecodeLoop(symbol_set, beam_width, Truncate(y, t), 1,
          [new_paths_with_terminal_blank |-> i.initial_paths_with_final_blank,
           new_paths_with_terminal_symbol |-> i.initial_paths_with_final_symbols,
           new_blank_path_score |-> i.initial_blank_path_score,
           new_path_score |-> i.initial_path_score])

\* No prune of the call removes a path.
NoPruneRemoves(symbol_set, beam_width, y) ==
    \A t \in 1..(y.shape[2] - 1) :
      \A st \in CandidatesAt(symbol_set, beam_width, y, t) :
        LET pr == prune(st.new_paths_with_terminal_blank, st.new_paths_with_terminal_symbol,
                        st.new_blank_path_score, st.new_path_score, beam_width)
        IN /\ pr.pruned_paths_with_terminal_blank = st.new_paths_with_terminal_blank
           /\ pr.pruned_paths_with_terminal_symbol = st.new_paths_with_terminal_symbol

\* C20: for an alphabet of one-character symbols the scores of all candidates
\* after the two extensions of timestep t sum to the sum of the scores the
\* extensions started from times the sum of the class probabilities of
\* timestep t; when no prune removes a path the merged scores sum to exactly
\* the product over the timesteps of the sums of the class probabilities.
C20_MassConservedWithoutPruning ==
    \A c \in DOMAIN loc :
        LET l == loc[c]
            T == l.y_probs.shape[2]
        IN SingleCharacterSymbols(self.symbol_set) =>
            /\ JustExtended(c) =>
                  SumOfScores(l.new_blank_path_score) + SumOfScores(l.new_path_score) =
                     (SumOfScores(self.blank_path_score) + SumOfScores(self.path_score))
                        * ColumnSum(l.y_probs, l.t - 1, l.y_probs.shape[1])
            /\ (IsBeamCall(c, "done") /\ T >= 1
                  /\ NoPruneRemoves(self.symbol_set, self.beam_width, l.y_probs)) =>
                  SumOfScores(l.merged_path_scores) = ProductOfColumnSums(l.y_probs, 0, T)

\* A finished call of three timesteps in which no prune removed a path although
\* the second prune saw more candidates than the beam width, with positive mass.
C20_Witness ==
    \E c \in DOMAIN loc :
        /\ IsBeamCall(c, "done")
        /\ loc[c].y_probs.shape[2] = 3
        /\ self.symbol_set = <<(<<"a">>)>>
        /\ NoPruneRemoves(self.symbol_set, self.beam_width, loc[c].y_probs)
        /\ Cardinality(PruneOutput(loc[c])) > self.beam_width
        /\ SumOfScores(loc[c].merged_path_scores) > 1
        /\ SumOfScores(loc[c].merged_path_scores) = ProductOfColumnSums(loc[c].y_probs, 0, 3)

====
